---- MODULE Spec2Model ----
(***************************************************************************)
(* A model of pymc/logprob/mixture.py: the index expansion algorithm       *)
(* (expand_indices), the two mixture rewrites (mixture_replace and         *)
(* switch_mixture_replace) and the log-density evaluator of the            *)
(* placeholder (logprob_MixtureRV).                                        *)
(*                                                                         *)
(* Arrays are records [shape, data]: shape is a sequence of axis sizes and *)
(* data maps every position (a sequence of 0-based coordinates) to an      *)
(* integer.  A 0-d array has shape <<>> and the single position <<>>.      *)
(***************************************************************************)
EXTENDS Integers, Sequences, FiniteSets, TLC

VARIABLES
    indices,      \* expand_indices: the index specifications passed in
    shape,        \* expand_indices: the shape of the array being indexed
    expanded,     \* expand_indices: what the call returned (or NotCalled)
    node,         \* the node of the graph the rewriter is looking at
    out,          \* what the rewrite rule returned for node: a MixtureRV or NoRewrite
    pc,           \* where the rewriter / the evaluator stands
    value,        \* logprob_MixtureRV: the value the log-density is taken at
    m,            \* logprob_MixtureRV: the component the loop is at
    logp_val,     \* logprob_MixtureRV: the result being built
    writes        \* array path: how often each position of logp_val was set

xvars == <<indices, shape, expanded>>
rvars == <<node, out, pc, value, m, logp_val, writes>>
vars == <<indices, shape, expanded, node, out, pc, value, m, logp_val, writes>>

----------------------------------------------------------------------------
(* Bounds of the model *)

MaxRank == 3
MaxDim == 2
MaxComps == 3
MaxValue == 1

----------------------------------------------------------------------------
(* Small helpers on sequences and sets *)

Max(a, b) == IF a >= b THEN a ELSE b
Min(a, b) == IF a <= b THEN a ELSE b

RECURSIVE SetMax(_)
SetMax(S) ==
    IF S = {} THEN 0
    ELSE LET x == CHOOSE y \in S : TRUE IN Max(x, SetMax(S \ {x}))

Ones(n) == [i \in 1..n |-> 1]

----------------------------------------------------------------------------
(* Arrays *)

RECURSIVE Positions(_)
Positions(sh) ==
    IF sh = <<>> THEN {<<>>}
    ELSE {<<i>> \o p : i \in 0..(sh[1] - 1), p \in Positions(Tail(sh))}

Scalar(v) == [shape |-> <<>>, data |-> [p \in {<<>>} |-> v]]

ndim(a) == Len(a.shape)

\* pt.arange(start, stop, step) for step > 0
arange(start, stop, step) ==
    LET n == IF stop > start THEN ((stop - start - 1) \div step) + 1 ELSE 0
    IN  [shape |-> <<n>>, data |-> [p \in Positions(<<n>>) |-> start + p[1] * step]]

\* idx[(None,) * nLeft][(Ellipsis,) + (None,) * nRight]: unit axes are added
\* before and after the axes of the array
PadDims(a, nLeft, nRight) ==
    LET r == ndim(a)
        sh == Ones(nLeft) \o a.shape \o Ones(nRight)
    IN  [shape |-> sh,
         data |-> [p \in Positions(sh) |-> a.data[SubSeq(p, nLeft + 1, nLeft + r)]]]

\* NumPy broadcasting of shapes, aligned at the last axis
DimAt(sh, R, k) == IF k - (R - Len(sh)) >= 1 THEN sh[k - (R - Len(sh))] ELSE 1

BroadcastRank(shapes) == SetMax({Len(shapes[i]) : i \in 1..Len(shapes)})

BroadcastDims(shapes, k) ==
    {DimAt(shapes[i], BroadcastRank(shapes), k) : i \in 1..Len(shapes)} \ {1}

BroadcastCompatible(shapes) ==
    \A k \in 1..BroadcastRank(shapes) : Cardinality(BroadcastDims(shapes, k)) <= 1

BroadcastShape(shapes) ==
    [k \in 1..BroadcastRank(shapes) |->
        IF BroadcastDims(shapes, k) = {} THEN 1
        ELSE CHOOSE d \in BroadcastDims(shapes, k) : TRUE]

BroadcastTo(a, sh) ==
    LET r == ndim(a)
        R == Len(sh)
    IN  [shape |-> sh,
         data |-> [p \in Positions(sh) |->
                     a.data[[j \in 1..r |-> IF a.shape[j] = 1 THEN 0 ELSE p[j + R - r]]]]]

----------------------------------------------------------------------------
(* Index specifications.  kind is "slice", "newaxis", "int" (an integer    *)
(* scalar) or "array" (an integer index array).  A slice keeps start, stop *)
(* and step, each <<>> for None or <<v>>; an integer scalar or an array    *)
(* keeps its value as a (0-d or n-d) array.  dtype is the sequence of the  *)
(* characters of the dtype's name; const says the index is a compile-time  *)
(* constant of the indexing operation.                                     *)

None == <<>>
Some(v) == <<v>>

Int64 == <<"i", "n", "t", "6", "4">>
UInt8 == <<"u", "i", "n", "t", "8">>

Slice(start, stop, step) ==
    [kind |-> "slice", sl |-> <<start, stop, step>>, arr |-> Scalar(0),
     dtype |-> <<>>, const |-> TRUE]

FullSlice == Slice(None, None, None)

NewAxis ==
    [kind |-> "newaxis", sl |-> <<None, None, None>>, arr |-> Scalar(0),
     dtype |-> <<>>, const |-> TRUE]

IntIdx(v) ==
    [kind |-> "int", sl |-> <<None, None, None>>, arr |-> Scalar(v),
     dtype |-> Int64, const |-> FALSE]

ArrayIdx(a) ==
    [kind |-> "array", sl |-> <<None, None, None>>, arr |-> a,
     dtype |-> Int64, const |-> FALSE]

is_newaxis(x) == x.kind = "newaxis"

\* pytensor's is_basic_idx: a slice or None; an integer is not a basic index
is_basic_idx(idx) == idx.kind \in {"slice", "newaxis"}

----------------------------------------------------------------------------
(* get_canonical_form_slice(theslice, length): the slice with               *)
(* 0 <= start <= stop <= length and step > 0 that selects the same          *)
(* elements, and a flag (1 or -1) saying whether they are to be reversed.   *)

CanonicalStart(sl, length) ==
    LET step == IF sl[3] = None THEN 1 ELSE sl[3][1]
        neg == step < 0
        s0 == IF sl[1] = None THEN (IF neg THEN length - 1 ELSE 0) ELSE sl[1][1]
        s1 == IF sl[1] # None /\ s0 < 0 THEN s0 + length ELSE s0
        s2 == IF sl[1] # None /\ s1 < 0 THEN (IF neg THEN -1 ELSE 0) ELSE s1
    IN  IF sl[1] # None /\ s2 >= length THEN (IF neg THEN length - 1 ELSE length) ELSE s2

CanonicalStop(sl, length) ==
    LET step == IF sl[3] = None THEN 1 ELSE sl[3][1]
        neg == step < 0
        t0 == IF sl[2] = None THEN (IF neg THEN -1 ELSE length) ELSE sl[2][1]
        t1 == IF sl[2] # None /\ t0 < 0 THEN t0 + length ELSE t0
        t2 == IF sl[2] # None /\ t1 < 0 THEN -1 ELSE t1
    IN  IF sl[2] # None /\ t2 >= length THEN length ELSE t2

get_canonical_form_slice(sl, length) ==
    LET step == IF sl[3] = None THEN 1 ELSE sl[3][1]
        neg == step < 0
        abs_step == IF neg THEN -step ELSE step
        start == CanonicalStart(sl, length)
        stop == CanonicalStop(sl, length)
        nw_stop0 == IF neg THEN start + 1 ELSE stop
        slice_len0 == ((start - stop - 1) \div abs_step) + 1
        slice_len == IF slice_len0 < 0 THEN 0 ELSE slice_len0
        neg_start0 == nw_stop0 - (slice_len - 1) * abs_step - 1
        neg_start == IF neg_start0 < 0 THEN nw_stop0 - 1 ELSE neg_start0
        nw_start0 == IF neg THEN neg_start ELSE start
        nw_start1 == IF nw_start0 < 0 THEN 0 ELSE nw_start0
        nw_stop == IF nw_stop0 < 0 THEN 0 ELSE nw_stop0
        nw_start == IF nw_start1 < nw_stop THEN nw_start1 ELSE nw_stop
    IN  [start |-> nw_start, stop |-> nw_stop, step |-> abs_step,
         reverse |-> IF neg THEN -1 ELSE 1]

----------------------------------------------------------------------------
(* expand_indices(indices, shape)                                          *)

\* full_indices = list(indices) + [slice(None)] * n_missing_dims
full_indices(ind, sh) ==
    LET n_non_newaxis == Cardinality({i \in 1..Len(ind) : ~is_newaxis(ind[i])})
        n_missing_dims == Len(sh) - n_non_newaxis
    IN  ind \o [i \in 1..Max(n_missing_dims, 0) |-> FullSlice]

\* index_types.index(x, from): the first 0-based position >= from holding
\* x, or -1 where Python raises ValueError
IndexOf(types, x, from) ==
    LET hits == {i \in (from + 1)..Len(types) : types[i] = x}
    IN  IF hits = {} THEN -1 ELSE (CHOOSE i \in hits : \A j \in hits : i <= j) - 1

first_adv_idx(ind, sh) ==
    LET full == full_indices(ind, sh)
        index_types == [i \in 1..Len(full) |-> is_basic_idx(full[i])]
        f == IndexOf(index_types, FALSE, 0)
    IN  IF f = -1 THEN Len(sh) ELSE f

\* a variant of moved_subspace that never moves the subspace, to test that
\* the placement property tells the two layouts apart
moved_subspace_never(ind, sh) == FALSE

moved_subspace(ind, sh) ==
    LET full == full_indices(ind, sh)
        index_types == [i \in 1..Len(full) |-> is_basic_idx(full[i])]
        f == IndexOf(index_types, FALSE, 0)
        b == IF f = -1 THEN -1 ELSE IndexOf(index_types, TRUE, f)
        a == IF b = -1 THEN -1 ELSE IndexOf(index_types, FALSE, b)
    IN  a # -1

\* a variant of n_basic_indices that leaves the newaxis markers out, to test
\* that the rank property depends on them
n_basic_indices_slices(ind, sh) ==
    LET full == full_indices(ind, sh)
    IN  Cardinality({i \in 1..Len(full) : full[i].kind = "slice"})

n_basic_indices(ind, sh) ==
    LET full == full_indices(ind, sh)
    IN  Cardinality({i \in 1..Len(full) : is_basic_idx(full[i])})

n_subspace_dims(ind, sh) ==
    LET full == full_indices(ind, sh)
    IN  SetMax({ndim(full[i].arr) : i \in {j \in 1..Len(full) : ~is_basic_idx(full[j])}})

n_output_dims(ind, sh) == n_subspace_dims(ind, sh) + n_basic_indices(ind, sh)

\* the value of n_preceding_basics when the loop reaches position d (1-based)
n_preceding_basics(full, d) ==
    Cardinality({i \in 1..(d - 1) : is_basic_idx(full[i])})

\* s = shape_copy.pop(0) at position d: one axis per index that is no newaxis
PoppedSize(full, sh, d) ==
    sh[Cardinality({i \in 1..d : ~is_newaxis(full[i])})]

\* the body of the loop for an advanced index (lines 138-157)
ExpandAdvanced(ind, sh, d) ==
    LET full == full_indices(ind, sh)
        idx == full[d].arr
        nb == n_basic_indices(ind, sh)
        np == n_preceding_basics(full, d)
    IN  IF moved_subspace(ind, sh)
        THEN PadDims(idx, 0, nb)
        ELSE PadDims(idx, np, nb - np)

\* the body of the loop for a slice (lines 163-193)
ExpandBasic(ind, sh, d) ==
    LET full == full_indices(ind, sh)
        s == PoppedSize(full, sh, d)
        idx_slice == get_canonical_form_slice(full[d].sl, s)
        idx == arange(idx_slice.start, idx_slice.stop, idx_slice.step)
        nb == n_basic_indices(ind, sh)
        ns == n_subspace_dims(ind, sh)
        np == n_preceding_basics(full, d)
        n_preceding_dims == (IF d - 1 > first_adv_idx(ind, sh) THEN ns ELSE 0) + np
    IN  IF moved_subspace(ind, sh)
        THEN PadDims(idx, ns + np, nb - np - 1)
        ELSE PadDims(idx, n_preceding_dims, n_output_dims(ind, sh) - n_preceding_dims - 1)

expanded_idx(ind, sh, d) ==
    IF ~is_basic_idx(full_indices(ind, sh)[d])
    THEN ExpandAdvanced(ind, sh, d)
    ELSE ExpandBasic(ind, sh, d)

\* adv_indices: one expanded index per position that is no newaxis
adv_indices(ind, sh) ==
    LET full == full_indices(ind, sh)
        kept == {d \in 1..Len(full) : ~is_newaxis(full[d])}
        pos(k) == CHOOSE d \in kept : Cardinality({e \in kept : e <= d}) = k
    IN  [k \in 1..Cardinality(kept) |-> expanded_idx(ind, sh, pos(k))]

\* pt.broadcast_arrays(*adv_indices) after the assertion of line 197: status
\* "ok" with the broadcast arrays, "assert" where the assertion fails,
\* "error" where broadcast_arrays raises
broadcast_arrays(adv, n_out) ==
    LET shapes == [k \in 1..Len(adv) |-> adv[k].shape]
    IN  IF \E k \in 1..Len(adv) : ndim(adv[k]) > n_out
        THEN [status |-> "assert", arrays |-> <<>>]
        ELSE IF ~BroadcastCompatible(shapes)
        THEN [status |-> "error", arrays |-> <<>>]
        ELSE [status |-> "ok",
              arrays |-> [k \in 1..Len(adv) |-> BroadcastTo(adv[k], BroadcastShape(shapes))]]

expand_indices(ind, sh) ==
    CHOOSE r \in {broadcast_arrays(adv, n_output_dims(ind, sh)) : adv \in {adv_indices(ind, sh)}} :
        TRUE

NotCalled == [status |-> "none", arrays |-> <<>>]

----------------------------------------------------------------------------
(* The inputs of expand_indices that the model draws *)

\* shapes of r axes of MaxDim elements each, but for the axes of a single
\* element: none, the first, the last or all of them
Shapes(r) ==
    {[i \in 1..r |-> IF i \in S THEN 1 ELSE MaxDim] : S \in {{}, {1}, {r}, 1..r}}

\* index arrays: one of one axis and one of two axes, with entries valid
\* on every axis (0 is the first element, -1 the last)
IndexArrays ==
    { [shape |-> <<2>>, data |-> [p \in Positions(<<2>>) |-> -p[1]]],
      [shape |-> <<2, 1>>, data |-> [p \in Positions(<<2, 1>>) |-> p[1] - 1]] }

SliceSpecs ==
    { FullSlice, Slice(None, None, Some(-1)), Slice(Some(1), None, None) }

IndexSpecs ==
    SliceSpecs \cup {IntIdx(-1)} \cup {ArrayIdx(a) : a \in IndexArrays} \cup {NewAxis}

RECURSIVE IndexSeqs(_, _)
\* the sequences of at most r indices that are no newaxis and at most n newaxis
IndexSeqs(r, n) ==
    {<<>>} \cup
    (IF r = 0 THEN {}
     ELSE {<<x>> \o s : x \in {y \in IndexSpecs : ~is_newaxis(y)}, s \in IndexSeqs(r - 1, n)})
    \cup
    (IF n = 0 THEN {}
     ELSE {<<x>> \o s : x \in {y \in IndexSpecs : is_newaxis(y)}, s \in IndexSeqs(r, n - 1)})

\* every shape of at most MaxRank axes with every sequence of at most as many
\* indices as axes, with or without one newaxis among them
XInputs ==
    /\ \E r \in 1..MaxRank :
          /\ shape \in Shapes(r)
          /\ indices \in IndexSeqs(r, 1)

----------------------------------------------------------------------------
(* Standard array indexing, as the reference of the claims about          *)
(* expand_indices: x[indices] for an array x of the given shape, described *)
(* by the shape of the result and, per position of the result, the         *)
(* position of x it is read from.                                          *)

\* the indices Python's slice selects on an axis of n elements, in order
PySliceIndices(sl, n) ==
    LET step == IF sl[3] = None THEN 1 ELSE sl[3][1]
        lower == IF step < 0 THEN -1 ELSE 0
        upper == IF step < 0 THEN n - 1 ELSE n
        clamp(v) == IF v < 0 THEN Max(v + n, lower) ELSE Min(v, upper)
        start == IF sl[1] = None THEN (IF step < 0 THEN upper ELSE lower) ELSE clamp(sl[1][1])
        stop == IF sl[2] = None THEN (IF step < 0 THEN lower ELSE upper) ELSE clamp(sl[2][1])
        len == IF step > 0
               THEN (IF start < stop THEN ((stop - start - 1) \div step) + 1 ELSE 0)
               ELSE (IF stop < start THEN ((start - stop - 1) \div (-step)) + 1 ELSE 0)
    IN  [i \in 1..len |-> start + (i - 1) * step]

Normalize(i, n) == IF i < 0 THEN i + n ELSE i

\* NumPy: an integer scalar takes part in advanced indexing like an array
RefIsAdvanced(idx) == idx.kind \in {"int", "array"}

RefAdvancedAt(full) == {d \in 1..Len(full) : RefIsAdvanced(full[d])}

\* NumPy: the advanced indices are separated by a slice or a newaxis
RefSeparated(full) ==
    \E i, j, k \in 1..Len(full) :
        /\ i < j /\ j < k
        /\ RefIsAdvanced(full[i]) /\ ~RefIsAdvanced(full[j]) /\ RefIsAdvanced(full[k])

RefSubShape(full) ==
    LET adv == RefAdvancedAt(full)
        pos(k) == CHOOSE d \in adv : Cardinality({e \in adv : e <= d}) = k
    IN  BroadcastShape([k \in 1..Cardinality(adv) |-> full[pos(k)].arr.shape])

RefAxisSize(full, sh, d) == sh[Cardinality({i \in 1..d : ~is_newaxis(full[i])})]

\* the size of the axis a slice or a newaxis at position d gives the result
RefBasicDim(full, sh, d) ==
    IF is_newaxis(full[d]) THEN 1
    ELSE Len(PySliceIndices(full[d].sl, RefAxisSize(full, sh, d)))

RefFirstAdvanced(full) ==
    IF RefAdvancedAt(full) = {} THEN Len(full) + 1
    ELSE CHOOSE d \in RefAdvancedAt(full) : \A e \in RefAdvancedAt(full) : d <= e

\* the axis (1-based) of the result that belongs to the basic index at d
RefBasicAxis(full, d) ==
    LET before == Cardinality({i \in 1..(d - 1) : ~RefIsAdvanced(full[i])})
        nsub == Len(RefSubShape(full))
    IN  IF RefSeparated(full) \/ d > RefFirstAdvanced(full)
        THEN nsub + before + 1
        ELSE before + 1

\* the number of axes of the result before the axes of the advanced indices
RefSubspaceOffset(full) ==
    IF RefSeparated(full) THEN 0
    ELSE Cardinality({i \in 1..(RefFirstAdvanced(full) - 1) : ~RefIsAdvanced(full[i])})

RefShape(full, sh) ==
    LET basics == {d \in 1..Len(full) : ~RefIsAdvanced(full[d])}
        nsub == Len(RefSubShape(full))
        off == RefSubspaceOffset(full)
        R == nsub + Cardinality(basics)
    IN  [a \in 1..R |->
            IF a > off /\ a <= off + nsub
            THEN RefSubShape(full)[a - off]
            ELSE RefBasicDim(full, sh, CHOOSE d \in basics : RefBasicAxis(full, d) = a)]

\* the position of x read at position p of the result
RefSource(full, sh, p) ==
    LET kept == {d \in 1..Len(full) : ~is_newaxis(full[d])}
        pos(k) == CHOOSE d \in kept : Cardinality({e \in kept : e <= d}) = k
        nsub == Len(RefSubShape(full))
        off == RefSubspaceOffset(full)
        sub == SubSeq(p, off + 1, off + nsub)
        at(d) ==
            IF RefIsAdvanced(full[d])
            THEN Normalize(BroadcastTo(full[d].arr, RefSubShape(full)).data[sub],
                           RefAxisSize(full, sh, d))
            ELSE PySliceIndices(full[d].sl, RefAxisSize(full, sh, d))[p[RefBasicAxis(full, d)] + 1]
    IN  [k \in 1..Cardinality(kept) |-> at(pos(k))]

\* the position of x read at position p when x is gathered at the arrays res
GatherSource(res, sh, p) ==
    [k \in 1..Len(res) |-> Normalize(res[k].data[p], sh[k])]

GatherEqualsReference(ind, sh, res) ==
    LET full == full_indices(ind, sh)
    IN  /\ res.status = "ok"
        /\ \A k \in 1..Len(res.arrays) : res.arrays[k].shape = RefShape(full, sh)
        /\ \A p \in Positions(RefShape(full, sh)) :
              GatherSource(res.arrays, sh, p) = RefSource(full, sh, p)

HasNegativeStep(ind) ==
    \E d \in 1..Len(ind) : ind[d].kind = "slice" /\ ind[d].sl[3] # None /\ ind[d].sl[3][1] < 0

\* C2: gathering at the arrays expand_indices returns reads the positions
\* that the original mixed index expression reads, in every position of the
\* result, for every index sequence and shape.
C2_ExpandMatchesIndexing ==
    expanded # NotCalled => GatherEqualsReference(indices, shape, expanded)

\* what does hold: the same, for index sequences without a slice of negative step
C2_ExpandMatchesForwardSlices ==
    (expanded # NotCalled /\ ~HasNegativeStep(indices))
        => GatherEqualsReference(indices, shape, expanded)
----------------------------------------------------------------------------
(* Where the axes of the result come from: an array depends on an axis     *)
(* when moving along that axis alone changes its value.                    *)

DependsOn(a, axis) ==
    \E p \in Positions(a.shape) :
        \E v \in 0..(a.shape[axis] - 1) :
            a.data[p] # a.data[[p EXCEPT ![axis] = v]]

DepAxes(a) == {axis \in 1..ndim(a) : DependsOn(a, axis)}

\* the position (1-based) in the padded sequence of the k-th returned array
KeptPos(full, k) ==
    CHOOSE d \in 1..Len(full) :
        /\ ~is_newaxis(full[d])
        /\ Cardinality({e \in 1..d : ~is_newaxis(full[e])}) = k

NoEmptyAxis(res) == \A k \in 1..Len(res.arrays) : Positions(res.arrays[k].shape) # {}

\* The placement of the axes, given which indices count as advanced, the
\* rank nsub of the advanced subspace and whether it is moved to the front:
\* the array of an advanced index varies along the axes of the subspace
\* (aligned at its last axis), the array of a slice along its own axis.
PlacedAsStated(full, res, IsAdv(_), moved) ==
    LET advs == {d \in 1..Len(full) : IsAdv(full[d])}
        first == IF advs = {} THEN Len(full) + 1
                 ELSE CHOOSE d \in advs : \A e \in advs : d <= e
        nsub == SetMax({ndim(full[d].arr) : d \in advs})
        dimsBefore(d) == Cardinality({i \in 1..(d - 1) : is_basic_idx(full[i])})
        off == IF moved THEN 0 ELSE dimsBefore(first)
    IN  \A k \in 1..Len(res.arrays) :
            LET d == KeptPos(full, k)
                r == ndim(full[d].arr)
            IN  IF full[d].kind = "array"
                THEN DepAxes(res.arrays[k])
                        = {off + (nsub - r) + j : j \in DepAxes(full[d].arr)}
                ELSE IF full[d].kind = "slice"
                THEN DepAxes(res.arrays[k]) \subseteq
                        {IF moved \/ d > first THEN nsub + dimsBefore(d) + 1
                         ELSE dimsBefore(d) + 1}
                ELSE DepAxes(res.arrays[k]) = {}

\* a specification for which pred is false lies between two for which it holds
LiesBetween(full, IsAdv(_)) ==
    \E i, j, k \in 1..Len(full) :
        /\ i < j /\ j < k
        /\ IsAdv(full[i]) /\ ~IsAdv(full[j]) /\ IsAdv(full[k])

\* the specification's classes: an integer scalar, a slice and a newaxis are
\* basic, an array-valued index is advanced
SpecIsAdvanced(idx) == idx.kind = "array"

\* the code's classes (is_basic_idx): a slice and a newaxis are basic, an
\* integer scalar is an advanced index of rank 0
CodeIsAdvanced(idx) == ~is_basic_idx(idx)

\* C8 as stated, integer scalars counted among the basic specifications: the
\* axes of the advanced indices are at the front of the result iff a basic
\* specification lies between two advanced ones, and otherwise follow the
\* axes of the basic specifications before them.
C8_PlacementIntBasic ==
    (expanded.status = "ok" /\ NoEmptyAxis(expanded)) =>
        LET full == full_indices(indices, shape)
        IN  PlacedAsStated(full, expanded, SpecIsAdvanced, LiesBetween(full, SpecIsAdvanced))

\* C8 amended: the same with integer scalars counted among the advanced
\* specifications (rank 0), as is_basic_idx classifies them: the axes of the
\* advanced indices are at the front iff a slice or a newaxis lies between
\* two advanced specifications; [advanced, basic, advanced] gives the
\* advanced axes and then the basic axis, [advanced, advanced, basic] is not
\* reordered.
C8_PlacementIntAdvanced ==
    (expanded.status = "ok" /\ NoEmptyAxis(expanded)) =>
        LET full == full_indices(indices, shape)
        IN  PlacedAsStated(full, expanded, CodeIsAdvanced, LiesBetween(full, CodeIsAdvanced))

\* C8 witness: [array, slice, array] on three axes of two elements was
\* expanded, with the advanced axis first and the axis of the slice second.
C8_Witness ==
    /\ expanded.status = "ok"
    /\ Len(indices) = 3
    /\ indices[1].kind = "array" /\ indices[2] = FullSlice /\ indices[3].kind = "array"
    /\ ndim(indices[1].arr) = 1 /\ ndim(indices[3].arr) = 1
    /\ shape = <<2, 2, 2>>
    /\ DepAxes(expanded.arrays[1]) = {1}
    /\ DepAxes(expanded.arrays[2]) = {2}

----------------------------------------------------------------------------
(* The rank of the result *)

CommonRank(res, n) ==
    /\ res.arrays # <<>>
    /\ \A k \in 1..Len(res.arrays) :
          /\ res.arrays[k].shape = res.arrays[1].shape
          /\ ndim(res.arrays[k]) = n

MaxAdvancedRank(full) ==
    SetMax({ndim(full[d].arr) : d \in {e \in 1..Len(full) : full[e].kind \in {"int", "array"}}})

\* C9 as stated: the returned arrays share one shape, of rank n_subspace_dims
\* plus the number of basic specifications (integer scalars and slices) that
\* are no newaxis markers.
C9_RankWithoutNewaxis ==
    expanded.status = "ok" =>
        LET full == full_indices(indices, shape)
        IN  CommonRank(expanded,
                MaxAdvancedRank(full)
                + Cardinality({d \in 1..Len(full) : full[d].kind \in {"int", "slice"}}))

\* C9 amended: the returned arrays share one shape, of rank n_subspace_dims
\* plus the number of slices and newaxis markers of the padded sequence (an
\* integer scalar is an advanced index of rank 0 and adds no axis).
C9_RankCountsNewaxis ==
    expanded # NotCalled =>
        LET full == full_indices(indices, shape)
        IN  /\ expanded.status = "ok"
            /\ CommonRank(expanded,
                MaxAdvancedRank(full)
                + Cardinality({d \in 1..Len(full) : full[d].kind \in {"slice", "newaxis"}}))

\* C9 witness: a sequence with a newaxis, an integer scalar and an array was
\* expanded.
C9_Witness ==
    /\ expanded.status = "ok"
    /\ \E d \in 1..Len(indices) : indices[d].kind = "newaxis"
    /\ \E d \in 1..Len(indices) : indices[d].kind = "int"
    /\ \E d \in 1..Len(indices) : indices[d].kind = "array" /\ ndim(indices[d].arr) = 2
----------------------------------------------------------------------------
(* The graph the rewriter sees.                                            *)
(*                                                                         *)
(* A component is a variable of the graph: id names it, measurable says    *)
(* its owner's Op is a MeasurableVariable, valued that it is in            *)
(* rv_map_feature.rv_values, wrapped that its Op type has the prefix       *)
(* "Unmeasurable" (it was through ignore_logprob), shape is its shape.     *)
(*                                                                         *)
(* A node is an application of an indexing Op or of an Elemwise: op is its *)
(* Op; rv_map says the graph has the preserve_rv_mappings feature; stack   *)
(* is the Op that made inputs[0] of an indexing node ("MakeVector", "Join" *)
(* or "Other"), join_axis the first input of that Join, comps what was     *)
(* stacked (for an Elemwise: its inputs[1:]); idx is the index expression  *)
(* (for an Elemwise: its inputs[0], the condition, alone).                 *)

Component(i, sh) ==
    [id |-> i, measurable |-> TRUE, valued |-> FALSE, wrapped |-> FALSE, shape |-> sh]

NoneConst == [kind |-> "none", val |-> 0]
ConstantAxis(a) == [kind |-> "const", val |-> a]
SymbolicAxis == [kind |-> "symbolic", val |-> 0]

subtensor_ops == {"Subtensor", "AdvancedSubtensor", "AdvancedSubtensor1"}

\* node.inputs[1:] of an indexing node: a Subtensor keeps its constant
\* indices in the Op (idx_list) and takes only the symbolic ones as inputs,
\* the advanced Ops take every index as an input
IndexInputs(n) ==
    IF n.op = "Subtensor"
    THEN SelectSeq(n.idx, LAMBDA x : ~x.const)
    ELSE n.idx

\* pymc.logprob.utils.ignore_logprob: the variable under an Op type that is
\* not measurable on its own; a variable that is one already is returned as is
ignore_logprob(rv) == IF rv.wrapped THEN rv ELSE [rv EXCEPT !.wrapped = TRUE]

\* str.startswith
startswith(str, prefix) ==
    Len(str) >= Len(prefix) /\ SubSeq(str, 1, Len(prefix)) = prefix

broadcastable(idx) == [j \in 1..ndim(idx.arr) |-> idx.arr.shape[j] = 1]

\* MixtureRV(indices_end_idx, ...).make_node(*inputs)
MixtureRV(indices_end_idx, inputs) ==
    [indices_end_idx |-> indices_end_idx, inputs |-> inputs]

NoRewrite == [indices_end_idx |-> 0, inputs |-> <<>>]

\* get_stack_mixture_vars(node): (mixture_rvs, join_axis), or (None, None)
get_stack_mixture_vars(n) ==
    IF n.stack = "MakeVector"
    THEN [found |-> TRUE, mixture_rvs |-> n.comps, join_axis |-> NoneConst]
    ELSE IF n.stack = "Join"
    THEN [found |-> TRUE, mixture_rvs |-> n.comps, join_axis |-> n.join_axis]
    ELSE [found |-> FALSE, mixture_rvs |-> <<>>, join_axis |-> NoneConst]

\* a variant of the check on one component that leaves out the test on
\* rv_values, to test that the property depends on it
IsMeasurableOnly(rv, n) == rv.measurable

\* the check of lines 297-305 (and 370-375) on one component
IsFreshMeasurable(rv, n) == rv.measurable /\ ~rv.valued

\* the check of lines 310-318: an index of an integer dtype with an axis
\* that is not broadcastable
IsRepeatingIndex(ix) ==
    /\ startswith(ix.dtype, <<"i", "n", "t">>)
    /\ \E j \in 1..Len(broadcastable(ix)) : ~broadcastable(ix)[j]

HasRepeatingIndex(n) ==
    /\ n.op \in {"AdvancedSubtensor", "AdvancedSubtensor1"}
    /\ \E k \in 1..Len(IndexInputs(n)) :
          /\ IndexInputs(n)[k].kind # "slice"
          /\ IsRepeatingIndex(IndexInputs(n)[k])

WrapAll(rvs) == [i \in 1..Len(rvs) |-> ignore_logprob(rvs[i])]

\* mixture_replace(fgraph, node): the placeholder, or NoRewrite for None
mixture_replace(n) ==
    LET got == get_stack_mixture_vars(n)
        mixing_indices == IndexInputs(n)
    IN  IF ~n.rv_map THEN NoRewrite
        ELSE IF ~got.found \/ got.join_axis.kind \notin {"none", "const"} THEN NoRewrite
        ELSE IF ~(\A i \in 1..Len(got.mixture_rvs) : IsFreshMeasurable(got.mixture_rvs[i], n))
        THEN NoRewrite
        ELSE IF HasRepeatingIndex(n) THEN NoRewrite
        ELSE MixtureRV(1 + Len(mixing_indices),
                       <<got.join_axis>> \o mixing_indices \o WrapAll(got.mixture_rvs))

\* switch_mixture_replace(fgraph, node)
switch_mixture_replace(n) ==
    IF ~n.rv_map THEN NoRewrite
    ELSE IF n.op # "Switch" THEN NoRewrite
    ELSE IF \E i \in 1..Len(n.comps) : ~IsFreshMeasurable(n.comps[i], n) THEN NoRewrite
    ELSE MixtureRV(2, <<NoneConst, n.idx[1]>> \o WrapAll(n.comps))

----------------------------------------------------------------------------
(* logprob_MixtureRV(op, values, *inputs)                                  *)

op_join_axis(o) == o.inputs[1]
op_indices(o) == SubSeq(o.inputs, 2, o.indices_end_idx)
op_comp_rvs(o) == SubSeq(o.inputs, o.indices_end_idx + 1, Len(o.inputs))

\* the log-density of one element of component rv at v: a value of its own
\* per component and v, never that of zeros_like
LogDensity(rv, v) == -(1 + rv.id * (MaxValue + 1) + v)

\* logprob(rv, value): element by element, value broadcast against rv
logprob(rv, val) ==
    LET sh == BroadcastShape(<<val.shape, rv.shape>>)
        v == BroadcastTo(val, sh)
    IN  [shape |-> sh, data |-> [p \in Positions(sh) |-> LogDensity(rv, v.data[p])]]

RemoveAt(s, i) == SubSeq(s, 1, i - 1) \o SubSeq(s, i + 1, Len(s))
InsertAt(s, i, x) == SubSeq(s, 1, i - 1) \o <<x>> \o SubSeq(s, i, Len(s))

\* pt.expand_dims(a, axis) and pt.squeeze(a, axis), axis 0-based
expand_dims(a, axis) ==
    LET sh == InsertAt(a.shape, axis + 1, 1)
    IN  [shape |-> sh, data |-> [p \in Positions(sh) |-> a.data[RemoveAt(p, axis + 1)]]]

squeeze(a, axis) ==
    LET sh == RemoveAt(a.shape, axis + 1)
    IN  [shape |-> sh, data |-> [p \in Positions(sh) |-> a.data[InsertAt(p, axis + 1, 0)]]]

\* a variant of zeros_like that keeps its argument, to test that the
\* property depends on the terms of the other components being zero
zeros_like_keep(a) == a

zeros_like(a) == [shape |-> a.shape, data |-> [p \in Positions(a.shape) |-> 0]]

\* a + b, elementwise with broadcasting
add(a, b) ==
    LET sh == BroadcastShape(<<a.shape, b.shape>>)
    IN  [shape |-> sh,
         data |-> [p \in Positions(sh) |->
                     BroadcastTo(a, sh).data[p] + BroadcastTo(b, sh).data[p]]]

\* the test of line 412
UsesArrayPath(o) == Len(op_indices(o)) > 1 \/ ndim(op_indices(o)[1].arr) > 0

\* lines 413-428: the join axis, the components and the reference shape of
\* the array path
array_join_axis_val(o) == IF op_join_axis(o).kind = "none" THEN 0 ELSE op_join_axis(o).val

array_comp_rvs(o) ==
    IF op_join_axis(o).kind = "none"
    THEN [i \in 1..Len(op_comp_rvs(o)) |->
            [op_comp_rvs(o)[i] EXCEPT !.shape = <<1>> \o op_comp_rvs(o)[i].shape]]
    ELSE op_comp_rvs(o)

original_shape(o) ==
    IF op_join_axis(o).kind = "none"
    THEN <<Len(op_comp_rvs(o))>>
    ELSE op_comp_rvs(o)[1].shape

\* line 435: the positions where the index on the join axis is mm, b being
\* bcast_indices
idx_m_on_axis(o, b, mm) ==
    {p \in Positions(b[1].shape) : b[array_join_axis_val(o) + 1].data[p] = mm}

\* lines 436-438: the other index arrays, those of the axes i # join_axis_val
m_indices(o, b) ==
    LET keep == {i \in 1..Len(b) : i # array_join_axis_val(o) + 1}
        pos(k) == CHOOSE i \in keep : Cardinality({e \in keep : e <= i}) = k
    IN  [k \in 1..Cardinality(keep) |-> b[pos(k)]]

\* line 440, rv = rv[0]: the shape without its first axis
DropJoinDim(sh) == Tail(sh)

\* rv[m_indices] is defined: no more indices than axes, each within its axis
GatherInBounds(o, b, mm) ==
    LET sh == DropJoinDim(array_comp_rvs(o)[mm + 1].shape)
        mi == m_indices(o, b)
    IN  /\ Len(mi) <= Len(sh)
        /\ \A k \in 1..Len(mi) : \A p \in idx_m_on_axis(o, b, mm) :
              mi[k].data[p] >= -sh[k] /\ mi[k].data[p] < sh[k]

\* lines 458-461 of the scalar path
scalar_join_axis_val(o) == op_join_axis(o).val

scalar_value(o, val) ==
    IF op_join_axis(o).kind # "none" THEN expand_dims(val, scalar_join_axis_val(o)) ELSE val

\* lines 465-472: the term component i (0-based) adds to logp_val
scalar_term(o, val, i) ==
    LET comp_rv == op_comp_rvs(o)[i + 1]
        lp == logprob(comp_rv, scalar_value(o, val))
        comp_logp == IF op_join_axis(o).kind # "none"
                     THEN squeeze(lp, scalar_join_axis_val(o)) ELSE lp
    IN  IF op_indices(o)[1].arr.data[<<>>] = i THEN comp_logp ELSE zeros_like(comp_logp)
----------------------------------------------------------------------------
(* The nodes the model draws *)

Bool == <<"b", "o", "o", "l">>

Node(op, rv_map, stack, join_axis, comps, idx) ==
    [op |-> op, rv_map |-> rv_map, stack |-> stack, join_axis |-> join_axis,
     comps |-> comps, idx |-> idx]

\* n components of one shape: all of them fresh, or the first or the last
\* one not measurable, already valued, or already wrapped
CompVariants(n, sh) ==
    LET base == [i \in 1..n |-> Component(i - 1, sh)]
    IN  {base}
        \cup {[base EXCEPT ![j].measurable = FALSE] : j \in {1, n}}
        \cup {[base EXCEPT ![j].valued = TRUE] : j \in {1, n}}
        \cup {[base EXCEPT ![j].wrapped = TRUE] : j \in {1, n}}

\* how inputs[0] of an indexing node was made: scalars in a MakeVector, or
\* arrays stacked by a Join along axis 0 or 1 (each with a unit axis there),
\* along a symbolic axis, or not by a stacking Op at all
StackConfigs ==
    { [stack |-> "MakeVector", join_axis |-> NoneConst, sh |-> <<>>],
      [stack |-> "Join", join_axis |-> ConstantAxis(0), sh |-> <<1, 2>>],
      [stack |-> "Join", join_axis |-> ConstantAxis(1), sh |-> <<2, 1>>],
      [stack |-> "Join", join_axis |-> SymbolicAxis, sh |-> <<1, 2>>],
      [stack |-> "Other", join_axis |-> NoneConst, sh |-> <<>>] }

\* the condition of a switch, through as_nontensor_scalar: True is 1, False 0
CondIdx(c) == [IntIdx(c) EXCEPT !.dtype = Bool]

\* an integer written in the index expression: a constant of the Op
ConstIntIdx(v) == [IntIdx(v) EXCEPT !.const = TRUE]

\* an index array of one axis with the given entries and dtype
VectorIdx(entries, dtype) ==
    [ArrayIdx([shape |-> <<Len(entries)>>,
               data |-> [p \in Positions(<<Len(entries)>>) |-> entries[p[1] + 1]]])
        EXCEPT !.dtype = dtype]

ElemwiseNodes ==
    {Node("Switch", TRUE, "Other", NoneConst, comps, <<CondIdx(c)>>) :
        c \in {0, 1}, comps \in CompVariants(2, <<>>)}
    \cup {Node(op, rv, "Other", NoneConst, CHOOSE c \in CompVariants(2, <<>>) :
                \A i \in 1..2 : c[i] = Component(i - 1, <<>>), <<CondIdx(1)>>) :
            op \in {"Switch", "Add"}, rv \in BOOLEAN}

\* stacked[i] for a symbolic scalar i (of value k) or for the constant 0
SubtensorNodes ==
    UNION {
        {Node("Subtensor", TRUE, cfg.stack, cfg.join_axis, comps, idx) :
            comps \in CompVariants(n, cfg.sh),
            idx \in {<<IntIdx(k)>> : k \in (-1)..(n - 1)} \cup {<<ConstIntIdx(0)>>}}
        : n \in 2..MaxComps, cfg \in StackConfigs }

FreshComps(n, sh) == [i \in 1..n |-> Component(i - 1, sh)]

\* stacked[a] for an index array a: of one element (any valid entry k), or of
\* two elements, of a signed or an unsigned integer dtype; and, for arrays
\* joined along axis 0 or 1, the array of one element with a full slice on
\* the other axis
AdvancedNodes ==
    UNION {
        {Node("AdvancedSubtensor1", TRUE, "MakeVector", NoneConst, FreshComps(n, <<>>), <<ix>>) :
            ix \in {VectorIdx(<<k>>, Int64) : k \in (-n)..(n - 1)}
                   \cup {VectorIdx(<<0, n - 1>>, dt) : dt \in {Int64, UInt8}}
                   \cup {VectorIdx(<<0, 0>>, UInt8)}}
        \cup
        {Node("AdvancedSubtensor", TRUE, "Join", ConstantAxis(0), FreshComps(n, <<1, 2>>),
              <<VectorIdx(<<k>>, Int64), FullSlice>>) : k \in (-n)..(n - 1)}
        \cup
        {Node("AdvancedSubtensor", TRUE, "Join", ConstantAxis(1), FreshComps(n, <<2, 1>>),
              <<FullSlice, VectorIdx(<<k>>, Int64)>>) : k \in (-n)..(n - 1)}
        : n \in 2..MaxComps }

Nodes == ElemwiseNodes \cup SubtensorNodes \cup AdvancedNodes

ValueArrays(sh) == {[shape |-> sh, data |-> f] : f \in [Positions(sh) -> 0..MaxValue]}

\* what pt.empty may hold before it is written
Uninitialized(sh) == {[shape |-> sh, data |-> f] : f \in [Positions(sh) -> {0, -1}]}

\* the shape of the value of the placeholder on the scalar path
ScalarValueShape(o) ==
    IF op_join_axis(o).kind = "none" THEN op_comp_rvs(o)[1].shape
    ELSE RemoveAt(op_comp_rvs(o)[1].shape, op_join_axis(o).val + 1)

----------------------------------------------------------------------------
(* The state machine: the rewriter applies the rule that tracks the Op of  *)
(* the node at hand; the log-density of a placeholder it made may then be  *)
(* asked for, which runs logprob_MixtureRV, one component per step; then   *)
(* the rewriter goes on to another node.                                   *)

Idle ==
    /\ value = Scalar(0)
    /\ m = 0
    /\ logp_val = Scalar(0)
    /\ writes = <<>>

XIdle ==
    /\ indices = <<>>
    /\ shape = <<>>
    /\ expanded = NotCalled

Init ==
    /\ node \in Nodes
    /\ out = NoRewrite
    /\ pc = "scan"
    /\ Idle
    /\ XIdle

ApplyMixtureReplace ==
    /\ pc = "scan"
    /\ node.op \in subtensor_ops
    /\ out' = mixture_replace(node)
    /\ pc' = IF mixture_replace(node) = NoRewrite THEN "declined" ELSE "rewritten"
    /\ UNCHANGED <<node, value, m, logp_val, writes, xvars>>

ApplySwitchMixtureReplace ==
    /\ pc = "scan"
    /\ node.op \notin subtensor_ops
    /\ out' = switch_mixture_replace(node)
    /\ pc' = IF switch_mixture_replace(node) = NoRewrite THEN "declined" ELSE "rewritten"
    /\ UNCHANGED <<node, value, m, logp_val, writes, xvars>>

\* line 410: assert len(indices) > 0
LogprobAssertFails ==
    /\ pc = "rewritten"
    /\ Len(op_indices(out)) = 0
    /\ pc' = "assert_failed"
    /\ UNCHANGED <<node, out, value, m, logp_val, writes, xvars>>

\* lines 412-432: the array path up to its loop; expanded is bcast_indices
LogprobArrayBegin ==
    /\ pc = "rewritten"
    /\ Len(op_indices(out)) > 0
    /\ UsesArrayPath(out)
    /\ indices' = op_indices(out)
    /\ shape' = original_shape(out)
    /\ \E b \in {expand_indices(op_indices(out), original_shape(out))} :
          /\ expanded' = b
          /\ IF b.status = "ok"
             THEN /\ value' \in ValueArrays(b.arrays[1].shape)
                  /\ logp_val' \in Uninitialized(b.arrays[1].shape)
                  /\ writes' = [p \in Positions(b.arrays[1].shape) |-> 0]
                  /\ pc' = "array"
             ELSE /\ pc' = "expand_failed"
                  /\ UNCHANGED <<value, logp_val, writes>>
    /\ m' = 0
    /\ UNCHANGED <<node, out>>

\* lines 434-448: one turn of the loop of the array path
LogprobArrayIter ==
    /\ pc = "array"
    /\ m < Len(op_comp_rvs(out))
    /\ IF GatherInBounds(out, expanded.arrays, m)
       THEN \E at \in {idx_m_on_axis(out, expanded.arrays, m)} :
                /\ logp_val' = [logp_val EXCEPT !.data =
                       [p \in Positions(logp_val.shape) |->
                           IF p \in at
                           THEN LogDensity(array_comp_rvs(out)[m + 1], value.data[p])
                           ELSE logp_val.data[p]]]
                /\ writes' = [p \in Positions(logp_val.shape) |->
                                 IF p \in at THEN writes[p] + 1 ELSE writes[p]]
                /\ m' = m + 1
                /\ pc' = "array"
       ELSE /\ pc' = "index_error"
            /\ UNCHANGED <<m, logp_val, writes>>
    /\ UNCHANGED <<node, out, value, xvars>>

\* lines 458-463: the scalar path up to its loop
LogprobScalarBegin ==
    /\ pc = "rewritten"
    /\ Len(op_indices(out)) > 0
    /\ ~UsesArrayPath(out)
    /\ value' \in ValueArrays(ScalarValueShape(out))
    /\ logp_val' = Scalar(0)
    /\ m' = 0
    /\ pc' = "scalar"
    /\ UNCHANGED <<node, out, writes, xvars>>

\* lines 464-472: one turn of the loop of the scalar path
LogprobScalarIter ==
    /\ pc = "scalar"
    /\ m < Len(op_comp_rvs(out))
    /\ \E term \in {scalar_term(out, value, m)} : logp_val' = add(logp_val, term)
    /\ m' = m + 1
    /\ UNCHANGED <<node, out, pc, value, writes, xvars>>

\* line 474: return logp_val
LogprobReturn ==
    /\ pc \in {"array", "scalar"}
    /\ m = Len(op_comp_rvs(out))
    /\ pc' = IF pc = "array" THEN "done_array" ELSE "done_scalar"
    /\ UNCHANGED <<node, out, value, m, logp_val, writes, xvars>>

\* the rewriter goes on to another node of the graph
NextNode ==
    /\ pc \in {"declined", "done_array", "done_scalar", "assert_failed",
                "expand_failed", "index_error"}
    /\ node' \in Nodes
    /\ out' = NoRewrite
    /\ pc' = "scan"
    /\ value' = Scalar(0)
    /\ m' = 0
    /\ logp_val' = Scalar(0)
    /\ writes' = <<>>
    /\ indices' = <<>>
    /\ shape' = <<>>
    /\ expanded' = NotCalled

Next ==
    \/ ApplyMixtureReplace
    \/ ApplySwitchMixtureReplace
    \/ LogprobAssertFails
    \/ LogprobArrayBegin
    \/ LogprobArrayIter
    \/ LogprobScalarBegin
    \/ LogprobScalarIter
    \/ LogprobReturn
    \/ NextNode

Spec == Init /\ [][Next]_vars

XInit ==
    /\ XInputs
    /\ expanded = NotCalled
    /\ node = CHOOSE n \in ElemwiseNodes : TRUE
    /\ out = NoRewrite
    /\ pc = "expand"
    /\ Idle

ExpandIndicesCall ==
    /\ expanded = NotCalled
    /\ expanded' = expand_indices(indices, shape)
    /\ UNCHANGED <<indices, shape>>

XNext == ExpandIndicesCall /\ UNCHANGED rvars

SpecExpand == XInit /\ [][XNext]_vars

----------------------------------------------------------------------------
(* Properties of the rewriter and of logprob_MixtureRV *)

\* the log-density of component rv at the value val, element by element
DensityOf(rv, val) ==
    [shape |-> val.shape, data |-> [p \in Positions(val.shape) |-> LogDensity(rv, val.data[p])]]

Selector(n) == n.idx[1].arr.data[<<>>]

\* C1: for switch(cond, A, B) rewritten by switch_mixture_replace, what
\* logprob_MixtureRV returns is the log-density of A at the value when cond
\* is True (1), and that of B when cond is False (0).
C1_SwitchSelectsBranch ==
    (pc = "done_scalar" /\ node.op = "Switch") =>
        logp_val = DensityOf(node.comps[IF Selector(node) = 1 THEN 1 ELSE 2], value)

StackedAlongAxis0(n) ==
    \/ n.stack = "MakeVector"
    \/ n.stack = "Join" /\ n.join_axis = ConstantAxis(0)

\* C3: for n components stacked along axis 0 and indexed by a scalar integer
\* i of value k in 0..n-1, mixture_replace makes a placeholder and what
\* logprob_MixtureRV returns for it is the log-density of component k at the
\* value, the other components adding nothing.
C3_ScalarSelectsComponent ==
    /\ \A n \in SubtensorNodes :
          ( /\ StackedAlongAxis0(n) /\ n.rv_map /\ ~n.idx[1].const
            /\ \A i \in 1..Len(n.comps) : n.comps[i].measurable /\ ~n.comps[i].valued )
          => mixture_replace(n) # NoRewrite
    /\ ( /\ pc = "done_scalar" /\ node.op = "Subtensor" /\ StackedAlongAxis0(node)
         /\ Selector(node) \in 0..(Len(node.comps) - 1) )
       => logp_val = DensityOf(node.comps[Selector(node) + 1], value)

\* C3 witness: the evaluation of three stacked components indexed by i = 1
\* has returned, at a value that is not zero.
C3_Witness ==
    /\ pc = "done_scalar" /\ node.op = "Subtensor" /\ StackedAlongAxis0(node)
    /\ Len(node.comps) = 3 /\ Selector(node) = 1
    /\ \E p \in Positions(value.shape) : value.data[p] # 0
    /\ logp_val = DensityOf(node.comps[2], value)

\* an integer dtype, signed or unsigned
IsIntegerDtype(dtype) == dtype \in {Int64, UInt8}

\* C4: when mixture_replace is applied to an advanced-indexing node over
\* stacked components one of whose indices has an integer dtype, signed or
\* unsigned, and an axis that is not broadcastable, it makes no placeholder.
C4_DeclinesIntegerArrays ==
    ( /\ pc # "scan"
      /\ node.op \in {"AdvancedSubtensor", "AdvancedSubtensor1"}
      /\ \E k \in 1..Len(node.idx) :
            /\ node.idx[k].kind = "array"
            /\ IsIntegerDtype(node.idx[k].dtype)
            /\ \E j \in 1..ndim(node.idx[k].arr) : node.idx[k].arr.shape[j] # 1 )
    => out = NoRewrite

\* the entries of the index on the join axis are valid indices of an axis of
\* n elements
ValidSelector(o, b) ==
    \A p \in Positions(b[1].shape) :
        b[array_join_axis_val(o) + 1].data[p] \in (-Len(op_comp_rvs(o)))..(Len(op_comp_rvs(o)) - 1)

\* C5: when the loop of the array path has run over all the components, for
\* a selector whose entries on the join axis are in -n..n-1, every position
\* of the output buffer has been written exactly once.
C5_EveryPositionWrittenOnce ==
    (pc = "done_array" /\ ValidSelector(out, expanded.arrays)) =>
        \A p \in Positions(logp_val.shape) : writes[p] = 1

\* C6: every placeholder the two rules make has a selector between the join
\* axis and the components, indices_end_idx >= 2, so that the assertion of
\* logprob_MixtureRV holds.
C6_SelectorNonEmpty ==
    /\ out # NoRewrite => out.indices_end_idx >= 2
    /\ pc # "assert_failed"

\* C7: every component input of a placeholder is the wrapped version of its
\* component, and a rule rewrites only a node all of whose components are
\* measurable and none of which is bound to a value.
C7_ComponentsWrappedAndFresh ==
    out # NoRewrite =>
        /\ Len(op_comp_rvs(out)) = Len(node.comps)
        /\ \A i \in 1..Len(node.comps) :
              /\ op_comp_rvs(out)[i].wrapped
              /\ op_comp_rvs(out)[i].id = node.comps[i].id
              /\ node.comps[i].measurable
              /\ ~node.comps[i].valued

\* C7 witness: mixture_replace has made a placeholder from components that were
\* not wrapped before.
C7_Witness ==
    /\ pc = "rewritten"
    /\ node.op = "Subtensor"
    /\ \A i \in 1..Len(node.comps) : ~node.comps[i].wrapped
    /\ \A i \in 1..Len(op_comp_rvs(out)) : op_comp_rvs(out)[i].wrapped

\* C10: in the array path, for every constant join axis a, the axis taken
\* off each component before it is indexed is its axis a, the one whose index
\* array was left out of m_indices, and the indices left then fit the axes
\* left.
C10_StripsJoinAxis ==
    /\ pc = "array" =>
          \A i \in 1..Len(op_comp_rvs(out)) :
              DropJoinDim(array_comp_rvs(out)[i].shape)
                  = RemoveAt(array_comp_rvs(out)[i].shape, array_join_axis_val(out) + 1)
    /\ pc # "index_error"

====
